---- MODULE Spec2Model ----
(***************************************************************************)
(* A model of the CRM GraphQL backend: the customer, product and order     *)
(* mutations of crm/schema.py run by concurrent request workers against a  *)
(* relational store, and the periodic jobs of crm/cron.py.                 *)
(*                                                                         *)
(* Strings are sequences of one-character strings, so that strip(), the    *)
(* case folding of the iexact lookup, the e-mail and phone format checks   *)
(* and the parsing of ids are computed character by character.             *)
(***************************************************************************)
EXTENDS Integers, Sequences, FiniteSets, TLC

(***************************************************************************)
(* Bounds of the model.                                                    *)
(***************************************************************************)
MaxBatch == 2      \* longest bulkCreateCustomers input

(***************************************************************************)
(* Characters and strings.                                                 *)
(***************************************************************************)
Whitespace == {" "}
Digits == {"0", "1", "2", "3", "4", "5", "6", "7", "8", "9"}
Letters == {"a", "b", "c", "n", "x", "A"}

\* Python's None, for the optional phone.
NoneVal == <<"<None>">>

\* str.strip(): leading and trailing whitespace removed.
RECURSIVE LStrip(_)
LStrip(s) ==
    IF s = <<>> THEN <<>>
    ELSE IF Head(s) \in Whitespace THEN LStrip(Tail(s)) ELSE s

RECURSIVE RStrip(_)
RStrip(s) ==
    IF s = <<>> THEN <<>>
    ELSE IF s[Len(s)] \in Whitespace THEN RStrip(SubSeq(s, 1, Len(s) - 1)) ELSE s

Strip(s) == RStrip(LStrip(s))

\* Case folding of one character and of a string (the iexact lookup).
LowerChar(c) == IF c = "A" THEN "a" ELSE c

Lower(s) == [i \in 1..Len(s) |-> LowerChar(s[i])]

\* The positions of character c in s.
Positions(s, c) == {i \in 1..Len(s) : s[i] = c}

Max(S) == CHOOSE m \in S : \A k \in S : k <= m

(***************************************************************************)
(* Validation helpers (crm/schema.py, "Validation helpers").               *)
(***************************************************************************)
MsgNameRequired == "Name is required."
MsgEmailRequired == "Email is required."
MsgInvalidEmail == "Invalid email format."
MsgEmailExists == "Email already exists."
MsgInvalidPhone == "Invalid phone format. Use +1234567890 or 123-456-7890."
MsgCreateFailed == "Failed to create customer. Please try again."
MsgUnexpectedRow == "Unexpected error."
MsgEmptyList == "Input list cannot be empty."
MsgCustomerCreated == "Customer created successfully."
NoError == "ok"

\* PHONE_REGEX: ^(\+\d{7,15}|\d{3}-\d{3}-\d{4})$
PhoneRegexMatch(s) ==
    \/ /\ Len(s) >= 1
       /\ s[1] = "+"
       /\ Len(s) - 1 >= 7
       /\ Len(s) - 1 <= 15
       /\ \A i \in 2..Len(s) : s[i] \in Digits
    \/ /\ Len(s) = 12
       /\ s[4] = "-"
       /\ s[8] = "-"
       /\ \A i \in (1..12) \ {4, 8} : s[i] \in Digits

\* validate_phone: an absent or empty phone is accepted.
validate_phone(phone) ==
    IF phone = NoneVal \/ phone = <<>> THEN NoError
    ELSE IF PhoneRegexMatch(phone) THEN NoError
    ELSE MsgInvalidPhone

\* django.core.validators.validate_email, as far as the strings of the model
\* go: one "@" splits a non-empty user part of letters and digits from a
\* dotted domain of non-empty labels of letters and digits.
EmailFormatOk(s) ==
    /\ Positions(s, "@") # {}
    /\ LET at == Max(Positions(s, "@"))
           user == SubSeq(s, 1, at - 1)
           domain == SubSeq(s, at + 1, Len(s))
       IN  /\ user # <<>>
           /\ \A i \in 1..Len(user) : user[i] \in Letters \cup Digits
           /\ domain # <<>>
           /\ Positions(domain, ".") # {}
           /\ \A i \in 1..Len(domain) : domain[i] \in Letters \cup Digits \cup {"."}
           /\ domain[1] # "."
           /\ domain[Len(domain)] # "."
           /\ \A i \in 1..(Len(domain) - 1) : ~(domain[i] = "." /\ domain[i + 1] = ".")

\* The pre-check with an exact, case-sensitive lookup.
EmailExistsExact(rows, email) == \E r \in rows : r.email = email

\* Customer.objects.filter(email__iexact=email).exists() over the rows a
\* connection sees.
EmailExists(rows, email) == \E r \in rows : Lower(r.email) = Lower(email)

\* validate_unique_email: the format check, then the existence pre-check.
validate_unique_email(rows, email) ==
    IF ~EmailFormatOk(email) THEN MsgInvalidEmail
    ELSE IF EmailExists(rows, email) THEN MsgEmailExists
    ELSE NoError

(***************************************************************************)
(* The inputs the mutations are called with.                               *)
(***************************************************************************)
EmailA == <<"a", "@", "x", ".", "c">>
EmailAUpperPadded == <<" ", "A", "@", "x", ".", "c", " ">>
EmailB == <<"b", "@", "x", ".", "c">>
EmailMalformed == <<"a", "x", ".", "c">>
EmailBlank == <<" ", " ">>
NameN == <<"n">>
NameNPadded == <<" ", "n">>
NameBlank == <<" ">>
PhoneGood == <<"+", "1", "2", "3", "4", "5", "6", "7">>
PhoneBad == <<"1", "2", "3">>

\* CreateCustomerInput / BulkCustomerInput: name, email, optional phone.
CustomerInputs ==
    { [name |-> NameN, email |-> EmailA, phone |-> NoneVal],
      [name |-> NameNPadded, email |-> EmailAUpperPadded, phone |-> PhoneGood],
      [name |-> NameN, email |-> EmailB, phone |-> NoneVal],
      [name |-> NameN, email |-> EmailMalformed, phone |-> NoneVal],
      [name |-> NameBlank, email |-> EmailA, phone |-> NoneVal],
      [name |-> NameN, email |-> EmailB, phone |-> PhoneBad],
      [name |-> NameN, email |-> EmailBlank, phone |-> NoneVal] }

\* The candidates the lists of bulkCreateCustomers are made of.
BulkItems ==
    { c \in CustomerInputs :
        c.phone # PhoneBad /\ c.email # EmailBlank /\ c.email # EmailMalformed }

\* The lists bulkCreateCustomers is called with, the empty one included.
RECURSIVE SeqsUpTo(_, _)
SeqsUpTo(S, n) ==
    IF n = 0 THEN {<<>>}
    ELSE LET shorter == SeqsUpTo(S, n - 1)
         IN  shorter \cup {Append(q, x) : q \in {t \in shorter : Len(t) = n - 1}, x \in S}

BulkInputs == SeqsUpTo(BulkItems, MaxBatch)

\* The requests that run concurrently, each one customer-creating mutation.
Procs == {"w1", "w2"}

(***************************************************************************)
(* State.                                                                  *)
(***************************************************************************)
VARIABLES
    customers,   \* committed Customer rows
    nextId,      \* the store's id sequence for Customer
    pc,          \* per worker: where its current mutation stands
    inp,         \* per worker: the input list of its current mutation
    idx,         \* per worker: index of the bulk item being processed
    created,     \* per worker: the `created` list of its bulk call
    errors,      \* per worker: the `errors` list of its bulk call
    txn,         \* per worker: rows written by its open transaction
    result       \* per worker: what its last mutation returned or raised

custVars == <<customers, nextId, pc, inp, idx, created, errors, txn, result>>

NoResult ==
    [op |-> "none", input |-> <<>>, raised |-> "", message |-> "",
     customers |-> <<>>, errors |-> <<>>]

\* name.strip(), email.strip(), phone.strip() if phone else None
StripName(c) == Strip(c.name)
StripEmail(c) == Strip(c.email)
StripPhone(c) == IF c.phone = NoneVal \/ c.phone = <<>> THEN NoneVal ELSE Strip(c.phone)

\* The checks of one candidate before its insert, in the order of the code;
\* the first failing one gives the ValidationError message.
ItemError(rows, c) ==
    IF StripName(c) = <<>> THEN MsgNameRequired
    ELSE IF StripEmail(c) = <<>> THEN MsgEmailRequired
    ELSE IF validate_unique_email(rows, StripEmail(c)) # NoError
         THEN validate_unique_email(rows, StripEmail(c))
    ELSE validate_phone(StripPhone(c))

\* The row Customer.objects.create writes.
NewRow(c, id) ==
    [id |-> id, name |-> StripName(c), email |-> StripEmail(c), phone |-> StripPhone(c)]

(***************************************************************************)
(* The store.                                                              *)
(***************************************************************************)
\* A uniqueness constraint that compares the e-mails with case.
UniqueViolationExact(rows, email) == \E r \in rows : r.email = email

\* The uniqueness constraint of Customer.email (crm/models.py): an insert
\* is refused when a row with the same e-mail, compared without case, is
\* already there.
UniqueViolation(rows, email) == \E r \in rows : Lower(r.email) = Lower(email)

\* A read that misses the rows the transaction itself has written.
ViewCommittedOnly(p) == customers

\* The rows a worker's connection reads: committed rows and its own writes.
View(p) == customers \cup txn[p]

\* An insert waits while another open transaction holds an uncommitted row
\* with the same key: its outcome depends on how that transaction ends.
WaitsFor(p, q, email) == q # p /\ UniqueViolation(txn[q], email)

Blocked(p, email) == \E q \in Procs : WaitsFor(p, q, email)

\* Customer.objects.create(...): "IntegrityError" or the stored row.
InsertRaises(p, email) ==
    IF UniqueViolation(View(p), email) THEN "IntegrityError" ELSE NoError

\* Model.save_base runs the insert under mark_for_rollback_on_error: inside
\* an atomic block a failed write sets the connection's needs_rollback.
NeedsRollback(inAtomic, exc) == inAtomic /\ exc # NoError

\* transaction.savepoint_rollback(sp) executes a statement; a connection
\* whose needs_rollback is set refuses every statement until the atomic
\* block ends and raises TransactionManagementError instead.
savepoint_rollback(needsRollback) ==
    IF needsRollback THEN "TransactionManagementError" ELSE NoError

(***************************************************************************)
(* createCustomer (CreateCustomer.mutate).                                 *)
(***************************************************************************)
CCResult(c, raised, message, rows) ==
    [op |-> "createCustomer", input |-> <<c>>, raised |-> raised,
     message |-> message, customers |-> rows, errors |-> <<>>]

\* The call up to the insert: strip, required fields, validate_unique_email,
\* validate_phone. A ValidationError leaves as a GraphQLError with its
\* message.
CreateCustomerCheck(p, c) ==
    /\ pc[p] = "idle"
    /\ LET err == ItemError(View(p), c)
       IN  IF err # NoError
           THEN /\ result' = [result EXCEPT ![p] = CCResult(c, "GraphQLError", err, <<>>)]
                /\ pc' = [pc EXCEPT ![p] = "done"]
                /\ UNCHANGED inp
           ELSE /\ pc' = [pc EXCEPT ![p] = "cc_insert"]
                /\ inp' = [inp EXCEPT ![p] = <<c>>]
                /\ result' = [result EXCEPT ![p] = NoResult]
    /\ UNCHANGED <<customers, nextId, idx, created, errors, txn>>

\* Customer.objects.create in autocommit mode, customer.save(), and the
\* handlers: IntegrityError becomes "Email already exists.".
CreateCustomerInsert(p) ==
    /\ pc[p] = "cc_insert"
    /\ LET c == inp[p][1]
           email == StripEmail(c)
       IN  /\ ~Blocked(p, email)
           /\ IF InsertRaises(p, email) = "IntegrityError"
              THEN /\ result' = [result EXCEPT
                                   ![p] = CCResult(c, "GraphQLError", MsgEmailExists, <<>>)]
                   /\ UNCHANGED <<customers, nextId>>
              ELSE /\ customers' = customers \cup {NewRow(c, nextId)}
                   /\ nextId' = nextId + 1
                   /\ result' = [result EXCEPT
                                   ![p] = CCResult(c, "", MsgCustomerCreated,
                                                   <<NewRow(c, nextId)>>)]
    /\ pc' = [pc EXCEPT ![p] = "done"]
    /\ inp' = [inp EXCEPT ![p] = <<>>]
    /\ UNCHANGED <<idx, created, errors, txn>>

(***************************************************************************)
(* bulkCreateCustomers (BulkCreateCustomers.mutate).                       *)
(***************************************************************************)
\* An entry of the errors list: f"Row {idx}: {msg}", or the bare message of
\* the empty-input error (row = -1).
RowError(i, msg) == [row |-> i, msg |-> msg]

BulkResult(input, raised, rows, errs) ==
    [op |-> "bulkCreateCustomers", input |-> input, raised |-> raised,
     message |-> "", customers |-> rows, errors |-> errs]

\* The empty list answered with two empty lists.
BulkEmptyNoError(p, input) ==
    /\ pc[p] = "idle"
    /\ input = <<>>
    /\ result' = [result EXCEPT ![p] = BulkResult(input, "", <<>>, <<>>)]
    /\ pc' = [pc EXCEPT ![p] = "done"]
    /\ UNCHANGED <<customers, nextId, inp, idx, created, errors, txn>>

\* `if not input`: the list is rejected before any transaction is opened.
BulkEmpty(p, input) ==
    /\ pc[p] = "idle"
    /\ input = <<>>
    /\ result' = [result EXCEPT
                    ![p] = BulkResult(input, "", <<>>, <<RowError(-1, MsgEmptyList)>>)]
    /\ pc' = [pc EXCEPT ![p] = "done"]
    /\ UNCHANGED <<customers, nextId, inp, idx, created, errors, txn>>

\* `with transaction.atomic():` the outer transaction opens.
BulkBegin(p, input) ==
    /\ pc[p] = "idle"
    /\ input # <<>>
    /\ pc' = [pc EXCEPT ![p] = "bulk_check"]
    /\ inp' = [inp EXCEPT ![p] = input]
    /\ idx' = [idx EXCEPT ![p] = 0]
    /\ created' = [created EXCEPT ![p] = <<>>]
    /\ errors' = [errors EXCEPT ![p] = <<>>]
    /\ txn' = [txn EXCEPT ![p] = {}]
    /\ result' = [result EXCEPT ![p] = NoResult]
    /\ UNCHANGED <<customers, nextId>>

\* Where the loop goes after item idx[p]: the next item, or the end of the
\* atomic block.
AfterItem(p) == IF idx[p] + 1 = Len(inp[p]) THEN "bulk_commit" ELSE "bulk_check"

\* The whole call ends with exception exc leaving the atomic block: the
\* outer transaction is rolled back and the mutation raises.
BulkAbort(p, exc) ==
    /\ txn' = [txn EXCEPT ![p] = {}]
    /\ pc' = [pc EXCEPT ![p] = "done"]
    /\ result' = [result EXCEPT ![p] = BulkResult(inp[p], exc, <<>>, <<>>)]
    /\ inp' = [inp EXCEPT ![p] = <<>>]
    /\ idx' = [idx EXCEPT ![p] = 0]
    /\ created' = [created EXCEPT ![p] = <<>>]
    /\ errors' = [errors EXCEPT ![p] = <<>>]

\* An except clause of the loop body: savepoint_rollback(sp), then the
\* error entry; when savepoint_rollback raises, the exception leaves the
\* handler and the atomic block.
BulkHandle(p, needsRollback, msg) ==
    IF savepoint_rollback(needsRollback) # NoError
    THEN BulkAbort(p, savepoint_rollback(needsRollback))
    ELSE /\ errors' = [errors EXCEPT ![p] = Append(@, RowError(idx[p], msg))]
         /\ pc' = [pc EXCEPT ![p] = AfterItem(p)]
         /\ idx' = [idx EXCEPT ![p] = @ + 1]
         /\ UNCHANGED <<inp, created, txn, result>>

\* One item up to its insert: savepoint, strip, required fields,
\* validate_unique_email against the rows this transaction sees,
\* validate_phone; `except ValidationError` on failure.
BulkCheck(p) ==
    /\ pc[p] = "bulk_check"
    /\ LET c == inp[p][idx[p] + 1]
           err == ItemError(View(p), c)
       IN  IF err # NoError
           THEN BulkHandle(p, NeedsRollback(TRUE, NoError), err)
           ELSE /\ pc' = [pc EXCEPT ![p] = "bulk_insert"]
                /\ UNCHANGED <<inp, idx, created, errors, txn, result>>
    /\ UNCHANGED <<customers, nextId>>

\* Customer.objects.create, obj.save(), created.append(obj),
\* savepoint_commit(sp); `except IntegrityError` when the store refuses the
\* row.
BulkInsert(p) ==
    /\ pc[p] = "bulk_insert"
    /\ LET c == inp[p][idx[p] + 1]
           email == StripEmail(c)
           exc == InsertRaises(p, email)
       IN  /\ ~Blocked(p, email)
           /\ IF exc # NoError
              THEN /\ BulkHandle(p, NeedsRollback(TRUE, exc), MsgEmailExists)
                   /\ UNCHANGED nextId
              ELSE /\ txn' = [txn EXCEPT ![p] = @ \cup {NewRow(c, nextId)}]
                   /\ nextId' = nextId + 1
                   /\ created' = [created EXCEPT ![p] = Append(@, NewRow(c, nextId))]
                   /\ pc' = [pc EXCEPT ![p] = AfterItem(p)]
                   /\ idx' = [idx EXCEPT ![p] = @ + 1]
                   /\ UNCHANGED <<inp, errors, result>>
    /\ UNCHANGED customers

\* The statements that follow the insert of an item, when one of them fails.
\*   "save": obj.save() raises a DatabaseError; save_base marks the
\*       connection (needs_rollback) and created.append is not reached.
\*   "savepoint_commit": RELEASE SAVEPOINT raises (the statement is
\*       cancelled) after created.append(obj); nothing marks the connection,
\*       so savepoint_rollback(sp) in `except Exception` undoes the insert and
\*       the error entry is appended.
\*   "connection": the connection is lost; savepoint_commit raises and so
\*       does savepoint_rollback in the handler.
InsertFaults == {"save", "savepoint_commit", "connection"}

BulkInsertFault(p, fault) ==
    /\ pc[p] = "bulk_insert"
    /\ LET c == inp[p][idx[p] + 1]
           email == StripEmail(c)
       IN  /\ ~Blocked(p, email)
           /\ InsertRaises(p, email) = NoError
           /\ nextId' = nextId + 1
           /\ CASE fault = "save" ->
                     BulkHandle(p, NeedsRollback(TRUE, "OperationalError"), MsgUnexpectedRow)
                [] fault = "savepoint_commit" ->
                     IF savepoint_rollback(FALSE) # NoError
                     THEN BulkAbort(p, savepoint_rollback(FALSE))
                     ELSE /\ created' = [created EXCEPT ![p] = Append(@, NewRow(c, nextId))]
                          /\ errors' = [errors EXCEPT
                                           ![p] = Append(@, RowError(idx[p], MsgUnexpectedRow))]
                          /\ pc' = [pc EXCEPT ![p] = AfterItem(p)]
                          /\ idx' = [idx EXCEPT ![p] = @ + 1]
                          /\ UNCHANGED <<inp, txn, result>>
                [] fault = "connection" ->
                     BulkAbort(p, "OperationalError")
    /\ UNCHANGED customers

\* Two bulk transactions each waiting for a row the other holds: the store
\* ends the wait of one of them with an OperationalError (deadlock), which
\* `except Exception` handles.
BulkDeadlock(p) ==
    /\ pc[p] = "bulk_insert"
    /\ \E q \in Procs :
          /\ WaitsFor(p, q, StripEmail(inp[p][idx[p] + 1]))
          /\ pc[q] = "bulk_insert"
          /\ WaitsFor(q, p, StripEmail(inp[q][idx[q] + 1]))
    /\ BulkHandle(p, NeedsRollback(TRUE, "OperationalError"), MsgUnexpectedRow)
    /\ UNCHANGED <<customers, nextId>>

\* The atomic block ends without an exception: the outer transaction
\* commits and the mutation returns the two lists.
BulkCommit(p) ==
    /\ pc[p] = "bulk_commit"
    /\ customers' = customers \cup txn[p]
    /\ txn' = [txn EXCEPT ![p] = {}]
    /\ result' = [result EXCEPT ![p] = BulkResult(inp[p], "", created[p], errors[p])]
    /\ pc' = [pc EXCEPT ![p] = "done"]
    /\ inp' = [inp EXCEPT ![p] = <<>>]
    /\ idx' = [idx EXCEPT ![p] = 0]
    /\ created' = [created EXCEPT ![p] = <<>>]
    /\ errors' = [errors EXCEPT ![p] = <<>>]
    /\ UNCHANGED nextId

(***************************************************************************)
(* Products and orders (CreateProduct.mutate, CreateOrder.mutate).         *)
(***************************************************************************)
MaxProducts == 2   \* Product rows created in one behaviour
MaxOrders == 2     \* Order rows created in one behaviour
MaxIds == 2        \* longest productIds list of a createOrder call

VARIABLES
    products,      \* committed Product rows
    orders,        \* committed Order rows, each with its product links
    nextProductId, \* the store's id sequence for Product
    nextOrderId,   \* the store's id sequence for Order
    orderResult    \* what the last createProduct / createOrder call gave

orderVars == <<products, orders, nextProductId, nextOrderId, orderResult>>

MsgProductName == "Product name is required."
MsgPricePositive == "Price must be a positive number."
MsgStockNegative == "Stock cannot be negative."
MsgProductFailed == "Failed to create product. Please try again."
MsgNoProducts == "At least one product must be selected."
MsgInvalidCustomer == "Invalid customer ID."
MsgInvalidProducts == "Invalid product ID(s)"
MsgOrderFailed == "Failed to create order. Please try again."

\* Decimal digits and their values.
DigitValue(c) ==
    CASE c = "0" -> 0 [] c = "1" -> 1 [] c = "2" -> 2 [] c = "3" -> 3 [] c = "4" -> 4
      [] c = "5" -> 5 [] c = "6" -> 6 [] c = "7" -> 7 [] c = "8" -> 8 [] c = "9" -> 9

DigitChar(n) ==
    CASE n = 0 -> "0" [] n = 1 -> "1" [] n = 2 -> "2" [] n = 3 -> "3" [] n = 4 -> "4"
      [] n = 5 -> "5" [] n = 6 -> "6" [] n = 7 -> "7" [] n = 8 -> "8" [] n = 9 -> "9"

\* The value the store's integer primary key field makes of an ID string:
\* int(s), or ValueError (here -1) when s is no decimal numeral.
IsNumeral(s) == s # <<>> /\ \A i \in 1..Len(s) : s[i] \in Digits

RECURSIVE NumeralValue(_)
NumeralValue(s) ==
    IF s = <<>> THEN 0
    ELSE 10 * NumeralValue(SubSeq(s, 1, Len(s) - 1)) + DigitValue(s[Len(s)])

ValueError == -1

ToPk(s) == IF IsNumeral(s) THEN NumeralValue(s) ELSE ValueError

\* str(p.id)
RECURSIVE IdStr(_)
IdStr(n) == IF n < 10 THEN <<DigitChar(n)>> ELSE Append(IdStr(n \div 10), DigitChar(n % 10))

\* sum((p.price for p in products), Decimal("0.00")) over the rows found.
RECURSIVE SumPrices(_)
SumPrices(rows) ==
    IF rows = {} THEN 0
    ELSE LET r == CHOOSE x \in rows : TRUE
         IN  r.price + SumPrices(rows \ {r})

\* The inputs of createProduct: prices in cents, stock absent (<<>>) or given.
ProductInputs ==
    [name : {NameN, NameBlank}, price : {0, 5, 7}, stock : {<<>>, <<-1>>}]

\* The ID strings createOrder is called with.
IdInputs == {<<"1">>, <<"2">>, <<"0", "1">>, <<"x">>}

ProductIdLists == SeqsUpTo(IdInputs, MaxIds)

\* What a call gave: the GraphQLError raised with its message (for invalid
\* product ids the message kind, without the list of ids), or the row created.
NoOrderResult == [op |-> "none", raised |-> "", message |-> "", rows |-> {}]

OrderResult(op, raised, message, rows) ==
    [op |-> op, raised |-> raised, message |-> message, rows |-> rows]

\* The first failing check of createProduct, in the order of the code.
ProductError(in) ==
    IF Strip(in.name) = <<>> THEN MsgProductName
    ELSE IF in.price <= 0 THEN MsgPricePositive
    ELSE IF in.stock # <<>> /\ in.stock[1] < 0 THEN MsgStockNegative
    ELSE NoError

CreateProduct(in) ==
    /\ nextProductId <= MaxProducts
    /\ IF ProductError(in) # NoError
       THEN /\ orderResult' = OrderResult("createProduct", "GraphQLError",
                                          ProductError(in), {})
            /\ UNCHANGED <<products, nextProductId>>
       ELSE LET row == [id |-> nextProductId, name |-> Strip(in.name), price |-> in.price,
                        stock |-> IF in.stock = <<>> THEN 0 ELSE in.stock[1]]
            IN  /\ products' = products \cup {row}
                /\ nextProductId' = nextProductId + 1
                /\ orderResult' = OrderResult("createProduct", "", "", {row})
    /\ UNCHANGED <<orders, nextOrderId>>

\* list(Product.objects.filter(pk__in=product_ids))
ProductsFound(ids) == {r \in products : \E i \in 1..Len(ids) : ToPk(ids[i]) = r.id}

\* [str(pid) for pid in product_ids if str(pid) not in found_ids]
MissingIds(ids) ==
    LET found_ids == {IdStr(r.id) : r \in ProductsFound(ids)}
    IN  SelectSeq(ids, LAMBDA pid : pid \notin found_ids)

\* A total that adds a price for every id of the list, repeated ids included.
RECURSIVE SumPerId(_)
SumPerId(ids) ==
    IF ids = <<>> THEN 0
    ELSE SumPrices({r \in products : r.id = ToPk(Head(ids))}) + SumPerId(Tail(ids))

OrderTotalPerId(ids) == SumPerId(ids)

\* The total of a new order.
OrderTotal(ids) == SumPrices(ProductsFound(ids))

\* What createOrder raises for its input: "" when the order is created.
OrderError(customer_id, ids) ==
    IF ids = <<>> THEN MsgNoProducts
    ELSE IF ToPk(customer_id) = ValueError THEN MsgOrderFailed
    ELSE IF ~\E r \in customers : r.id = ToPk(customer_id) THEN MsgInvalidCustomer
    ELSE IF \E i \in 1..Len(ids) : ToPk(ids[i]) = ValueError THEN MsgOrderFailed
    ELSE IF MissingIds(ids) # <<>> THEN MsgInvalidProducts
    ELSE NoError

CreateOrder(customer_id, ids) ==
    /\ nextOrderId <= MaxOrders
    /\ IF OrderError(customer_id, ids) # NoError
       THEN /\ orderResult' = OrderResult("createOrder", "GraphQLError",
                                          OrderError(customer_id, ids), {})
            /\ UNCHANGED <<orders, nextOrderId>>
       ELSE LET row == [id |-> nextOrderId, customer |-> ToPk(customer_id),
                        products |-> {r.id : r \in ProductsFound(ids)},
                        total_amount |-> OrderTotal(ids)]
            IN  /\ orders' = orders \cup {row}
                /\ nextOrderId' = nextOrderId + 1
                /\ orderResult' = OrderResult("createOrder", "", "", {row})
    /\ UNCHANGED <<products, nextProductId>>

(***************************************************************************)
(* The heartbeat job (crm/cron.py, log_crm_heartbeat).                     *)
(***************************************************************************)
MaxClock == 3      \* the clock stops here
MaxLog == 3        \* heartbeat lines written in one behaviour

VARIABLES
    now,           \* the wall clock
    facadeUp,      \* whether the GraphQL endpoint answers { hello }
    heartbeatLog,  \* the lines of /tmp/crm_heartbeat_log.txt
    jobResult      \* how the last job invocation ended, and what it saw

cronVars == <<now, facadeUp, heartbeatLog, jobResult>>

HeartbeatText == "CRM is alive"

\* client.execute(query) inside the try: the answer, or an exception that
\* `except Exception: pass` swallows.
HelloQuery == IF facadeUp THEN "Hello, GraphQL!" ELSE "TransportError"

\* A line that reports a failed query.
HeartbeatLineWithStatus(timestamp, queried) ==
    [timestamp |-> timestamp,
     text |-> IF queried = "TransportError" THEN "CRM is down" ELSE HeartbeatText]

\* line = f"{timestamp} CRM is alive"
HeartbeatLine(timestamp, queried) == [timestamp |-> timestamp, text |-> HeartbeatText]

log_crm_heartbeat ==
    /\ Len(heartbeatLog) < MaxLog
    /\ heartbeatLog' = Append(heartbeatLog, HeartbeatLine(now, HelloQuery))
    /\ jobResult' = [job |-> "log_crm_heartbeat", raised |-> "", queried |-> HelloQuery]
    /\ UNCHANGED <<now, facadeUp>>

\* The environment of the job: time passes, the endpoint goes down or up.
Tick ==
    /\ now < MaxClock
    /\ now' = now + 1
    /\ UNCHANGED <<facadeUp, heartbeatLog, jobResult>>

FacadeFlip ==
    /\ facadeUp' = ~facadeUp
    /\ UNCHANGED <<now, heartbeatLog, jobResult>>

(***************************************************************************)
(* The collection queries (Query.resolve_all_customers / _products /       *)
(* _orders, _apply_order_by, _filter_queryset, crm/filters.py).            *)
(***************************************************************************)
VARIABLES
    queryResult    \* the last collection query: its arguments and what it gave

queryVars == <<queryResult>>

\* Field names and sort directives, as strings.
FName == <<"n", "a", "m", "e">>
FEmail == <<"e", "m", "a", "i", "l">>
FCreatedAt == <<"c", "r", "e", "a", "t", "e", "d", "_", "a", "t">>
FPrice == <<"p", "r", "i", "c", "e">>
FStock == <<"s", "t", "o", "c", "k">>
FOrderDate == <<"o", "r", "d", "e", "r", "_", "d", "a", "t", "e">>
FTotalAmount == <<"t", "o", "t", "a", "l", "_", "a", "m", "o", "u", "n", "t">>
FSecret == <<"s", "e", "c", "r", "e", "t">>
FNameCapital == <<"N", "a", "m", "e">>

Desc(field) == <<"-">> \o field

\* The orderBy arguments the queries are called with: absent (None), empty,
\* fields of the three entities with and without "-", and others.
OrderByInputs ==
    { NoneVal, <<>>, <<"-">>,
      FName, Desc(FName), Desc(Desc(FName)), FNameCapital,
      FEmail, FCreatedAt, Desc(FCreatedAt),
      FPrice, Desc(FPrice), FStock,
      FOrderDate, FTotalAmount, Desc(FTotalAmount),
      FSecret, Desc(FSecret) }

\* The allowed= sets of the three resolvers.
AllowedCustomerSort == {FName, FEmail, FCreatedAt}
AllowedProductSort == {FName, FPrice, FStock}
AllowedOrderSort == {FOrderDate, FTotalAmount}

MsgInvalidOrderBy == "Invalid orderBy field"
MsgInvalidFilter == "Invalid filter"

\* `not order_by`: None and the empty string.
Falsy(s) == s = NoneVal \/ s = <<>>

\* A field taken by removing every leading "-".
RECURSIVE SortFieldAllMarkers(_)
SortFieldAllMarkers(order_by) ==
    IF Len(order_by) >= 1 /\ order_by[1] = "-" THEN SortFieldAllMarkers(Tail(order_by))
    ELSE order_by

\* field = order_by[1:] if order_by.startswith("-") else order_by
SortField(order_by) ==
    IF Len(order_by) >= 1 /\ order_by[1] = "-" THEN SubSeq(order_by, 2, Len(order_by))
    ELSE order_by

\* _apply_order_by: what it raises ("" when it returns).
OrderByError(order_by, allowed) ==
    IF Falsy(order_by) THEN NoError
    ELSE IF SortField(order_by) \notin allowed THEN MsgInvalidOrderBy
    ELSE NoError

\* _apply_order_by: the ordering of the queryset it returns; <<>> is the
\* queryset as it came, without order_by.
OrderByApplied(order_by) == IF Falsy(order_by) THEN <<>> ELSE order_by

\* icontains: needle occurs in s, letters compared without case.
Contains(s, needle) ==
    \E i \in 1..(Len(s) - Len(needle) + 1) :
        Lower(SubSeq(s, i, i + Len(needle) - 1)) = Lower(needle)

\* An optional argument is <<>> when absent (None) and <<v>> when given.
Given(opt) == opt # <<>>

ValueOf(opt) == opt[1]

\* The value stock is compared with by the low-stock filter.
LowStockThreshold == 10

\* ProductFilterInput: the argument values of the model. nameIcontains is a
\* string (NoneVal when absent); the others are optional values.
NameNeedles == {NoneVal, <<"a">>, <<" ", "a">>, <<" ">>}

ProductFilterInputs ==
    [ name_icontains : NameNeedles,
      price_gte : {<<>>, <<6>>},
      price_lte : {<<>>, <<6>>},
      stock_gte : {<<>>, <<5>>},
      stock_lte : {<<>>, <<5>>, <<10>>},
      low_stock : {<<>>, <<TRUE>>, <<FALSE>>} ]

\* The keys resolve_all_products puts into `data`: a name only when it is
\* truthy, the others when they are not None.
ProductFilterData(f) ==
    [ name |-> IF Falsy(f.name_icontains) THEN <<>> ELSE <<f.name_icontains>>,
      price__gte |-> f.price_gte,
      price__lte |-> f.price_lte,
      stock__gte |-> f.stock_gte,
      stock__lte |-> f.stock_lte,
      low_stock |-> f.low_stock ]

\* CharFilter: the form field (forms.CharField, strip=True) strips the value
\* given; a filter whose cleaned value is the empty string is not applied.
CharFilterClean(value) == Strip(value)

CharFilterApplies(opt) == Given(opt) /\ CharFilterClean(ValueOf(opt)) # <<>>

\* ProductFilter.filter_low_stock with a threshold that lets the boundary in.
filter_low_stock_lte(qs, value) ==
    IF value THEN {r \in qs : r.stock <= LowStockThreshold} ELSE qs

\* ProductFilter.filter_low_stock
filter_low_stock(qs, value) ==
    IF value THEN {r \in qs : r.stock < LowStockThreshold} ELSE qs

\* ProductFilter: the queryset narrowed by one declared filter after the
\* other; a filter whose key is not in `data` leaves it as it is.
ProductFilterQs(data, qs) ==
    LET q1 == IF CharFilterApplies(data.name)
              THEN {r \in qs : Contains(r.name, CharFilterClean(ValueOf(data.name)))}
              ELSE qs
        q2 == IF Given(data.price__gte) THEN {r \in q1 : r.price >= ValueOf(data.price__gte)}
              ELSE q1
        q3 == IF Given(data.price__lte) THEN {r \in q2 : r.price <= ValueOf(data.price__lte)}
              ELSE q2
        q4 == IF Given(data.stock__gte) THEN {r \in q3 : r.stock >= ValueOf(data.stock__gte)}
              ELSE q3
        q5 == IF Given(data.stock__lte) THEN {r \in q4 : r.stock <= ValueOf(data.stock__lte)}
              ELSE q4
    IN  IF Given(data.low_stock) THEN filter_low_stock(q5, ValueOf(data.low_stock)) ELSE q5

\* What a collection query gave: the GraphQLError raised, or the queryset
\* returned, which is the rows selected and the order_by applied to them.
NoQueryResult ==
    [entity |-> "none", filter |-> <<>>, order_by |-> NoneVal, raised |-> "",
     message |-> "", rows |-> {}, ordering |-> <<>>]

QueryResult(entity, filter, order_by, err, rows) ==
    [entity |-> entity, filter |-> filter, order_by |-> order_by,
     raised |-> IF err # NoError THEN "GraphQLError" ELSE "",
     message |-> IF err # NoError THEN err ELSE "",
     rows |-> IF err # NoError THEN {} ELSE rows,
     ordering |-> IF err # NoError THEN <<>> ELSE OrderByApplied(order_by)]

\* resolve_all_products; filter is <<>> when the argument is absent.
resolve_all_products(filter, order_by) ==
    LET qs == IF Given(filter) THEN ProductFilterQs(ProductFilterData(ValueOf(filter)), products)
              ELSE products
    IN  /\ queryResult' = QueryResult("allProducts", filter, order_by,
                                      OrderByError(order_by, AllowedProductSort), qs)
        /\ UNCHANGED products

\* CustomerFilterInput. The two dates are left absent: the customer rows of
\* the model carry no creation date.
CustomerFilterInputs ==
    [ name_icontains : {NoneVal, NameNPadded},
      email_icontains : {NoneVal, EmailB},
      phone_pattern : {NoneVal, <<"+">>} ]

\* The keys resolve_all_customers puts into `data`, each when it is truthy.
CustomerFilterData(f) ==
    [ name |-> IF Falsy(f.name_icontains) THEN <<>> ELSE <<f.name_icontains>>,
      email |-> IF Falsy(f.email_icontains) THEN <<>> ELSE <<f.email_icontains>>,
      phone_pattern |-> IF Falsy(f.phone_pattern) THEN <<>> ELSE <<f.phone_pattern>> ]

\* phone__startswith; a customer without phone matches no prefix.
StartsWith(s, prefix) ==
    /\ s # NoneVal
    /\ Len(s) >= Len(prefix)
    /\ SubSeq(s, 1, Len(prefix)) = prefix

\* CustomerFilter, with filter_phone_pattern.
CustomerFilterQs(data, qs) ==
    LET q1 == IF CharFilterApplies(data.name)
              THEN {r \in qs : Contains(r.name, CharFilterClean(ValueOf(data.name)))}
              ELSE qs
        q2 == IF CharFilterApplies(data.email)
              THEN {r \in q1 : Contains(r.email, CharFilterClean(ValueOf(data.email)))}
              ELSE q1
    IN  IF CharFilterApplies(data.phone_pattern)
        THEN {r \in q2 : StartsWith(r.phone, CharFilterClean(ValueOf(data.phone_pattern)))}
        ELSE q2

\* resolve_all_customers
resolve_all_customers(filter, order_by) ==
    LET qs == IF Given(filter)
              THEN CustomerFilterQs(CustomerFilterData(ValueOf(filter)), customers)
              ELSE customers
    IN  /\ queryResult' = QueryResult("allCustomers", filter, order_by,
                                      OrderByError(order_by, AllowedCustomerSort), qs)
        /\ UNCHANGED customers

\* OrderFilterInput. productId is an ID, a string; the two dates are left
\* absent: the order rows of the model carry no date.
OrderFilterInputs ==
    [ total_amount_gte : {<<>>, <<6>>},
      total_amount_lte : {<<>>, <<6>>},
      customer_name : {NoneVal, NameN},
      product_name : {NoneVal, <<"a">>},
      product_id : {NoneVal} \cup IdInputs ]

\* The keys resolve_all_orders puts into `data`.
OrderFilterData(f) ==
    [ total_amount__gte |-> f.total_amount_gte,
      total_amount__lte |-> f.total_amount_lte,
      customer_name |-> IF Falsy(f.customer_name) THEN <<>> ELSE <<f.customer_name>>,
      product_name |-> IF Falsy(f.product_name) THEN <<>> ELSE <<f.product_name>>,
      product_id |-> IF Falsy(f.product_id) THEN <<>> ELSE <<f.product_id>> ]

\* f.is_valid() of OrderFilter: the NumberFilter on products__id takes a number.
OrderFilterIsValid(data) == Given(data.product_id) => IsNumeral(ValueOf(data.product_id))

\* OrderFilter followed by .distinct(): the related-field filters join through
\* the customer and the products of the order; the rows are a set, an order
\* is in it once.
OrderFilterQs(data, qs) ==
    LET q1 == IF Given(data.total_amount__gte)
              THEN {o \in qs : o.total_amount >= ValueOf(data.total_amount__gte)}
              ELSE qs
        q2 == IF Given(data.total_amount__lte)
              THEN {o \in q1 : o.total_amount <= ValueOf(data.total_amount__lte)}
              ELSE q1
        q3 == IF CharFilterApplies(data.customer_name)
              THEN {o \in q2 : \E c \in customers :
                        /\ c.id = o.customer
                        /\ Contains(c.name, CharFilterClean(ValueOf(data.customer_name)))}
              ELSE q2
        q4 == IF CharFilterApplies(data.product_name)
              THEN {o \in q3 : \E r \in products :
                        /\ r.id \in o.products
                        /\ Contains(r.name, CharFilterClean(ValueOf(data.product_name)))}
              ELSE q3
    IN  IF Given(data.product_id)
        THEN {o \in q4 : NumeralValue(ValueOf(data.product_id)) \in o.products}
        ELSE q4

\* resolve_all_orders: _filter_queryset raises before _apply_order_by is
\* reached when the filter is not valid.
resolve_all_orders(filter, order_by) ==
    LET data == OrderFilterData(ValueOf(filter))
        err == IF Given(filter) /\ ~OrderFilterIsValid(data) THEN MsgInvalidFilter
               ELSE OrderByError(order_by, AllowedOrderSort)
        qs == IF Given(filter) /\ OrderFilterIsValid(data) THEN OrderFilterQs(data, orders)
              ELSE orders
    IN  /\ queryResult' = QueryResult("allOrders", filter, order_by, err, qs)
        /\ UNCHANGED orders

\* The stores the queries are run on: rows as the mutations create them.
ProductA == [id |-> 1, name |-> <<"a">>, price |-> 5, stock |-> 3]
ProductXA == [id |-> 2, name |-> <<"x", " ", "A">>, price |-> 7, stock |-> 7]
ProductX == [id |-> 3, name |-> <<"x">>, price |-> 5, stock |-> 10]
ProductB == [id |-> 4, name |-> <<"b">>, price |-> 7, stock |-> 12]
SecondCustomer == NewRow([name |-> <<"m">>, email |-> EmailB, phone |-> PhoneGood], 2)
FirstCustomer == NewRow([name |-> NameN, email |-> EmailA, phone |-> NoneVal], 1)

QueryStores ==
    { [customers |-> {}, products |-> {}, orders |-> {}],
      [customers |-> {FirstCustomer}, products |-> {ProductA},
       orders |-> {[id |-> 1, customer |-> 1, products |-> {1}, total_amount |-> 5]}],
      [customers |-> {FirstCustomer, SecondCustomer},
       products |-> {ProductA, ProductXA, ProductX},
       orders |-> {[id |-> 1, customer |-> 1, products |-> {1, 2}, total_amount |-> 12],
                   [id |-> 2, customer |-> 2, products |-> {3}, total_amount |-> 5]}],
      [customers |-> {FirstCustomer, SecondCustomer},
       products |-> {ProductA, ProductXA, ProductX, ProductB},
       orders |-> {[id |-> 1, customer |-> 1, products |-> {1, 2}, total_amount |-> 12],
                   [id |-> 2, customer |-> 2, products |-> {3}, total_amount |-> 5]}] }

\* A filter argument: absent, or one of the input objects.
OptionalOf(S) == {<<>>} \cup {<<f>> : f \in S}

(***************************************************************************)
(* Specifications.                                                         *)
(***************************************************************************)
vars == <<custVars, orderVars, cronVars, queryVars>>

Init ==
    /\ customers = {}
    /\ nextId = 1
    /\ pc = [p \in Procs |-> "idle"]
    /\ inp = [p \in Procs |-> <<>>]
    /\ idx = [p \in Procs |-> 0]
    /\ created = [p \in Procs |-> <<>>]
    /\ errors = [p \in Procs |-> <<>>]
    /\ txn = [p \in Procs |-> {}]
    /\ result = [p \in Procs |-> NoResult]
    /\ products = {}
    /\ orders = {}
    /\ nextProductId = 1
    /\ nextOrderId = 1
    /\ orderResult = NoOrderResult
    /\ now = 0
    /\ facadeUp = TRUE
    /\ heartbeatLog = <<>>
    /\ jobResult = [job |-> "none", raised |-> "", queried |-> ""]
    /\ queryResult = NoQueryResult

\* Concurrent customer-creating mutations.
Next ==
    \/ \E p \in Procs, c \in CustomerInputs :
          CreateCustomerCheck(p, c) /\ UNCHANGED <<orderVars, cronVars, queryVars>>
    \/ \E p \in Procs : CreateCustomerInsert(p) /\ UNCHANGED <<orderVars, cronVars, queryVars>>
    \/ \E p \in Procs, input \in BulkInputs :
          BulkEmpty(p, input) /\ UNCHANGED <<orderVars, cronVars, queryVars>>
    \/ \E p \in Procs, input \in BulkInputs :
          BulkBegin(p, input) /\ UNCHANGED <<orderVars, cronVars, queryVars>>
    \/ \E p \in Procs : BulkCheck(p) /\ UNCHANGED <<orderVars, cronVars, queryVars>>
    \/ \E p \in Procs : BulkInsert(p) /\ UNCHANGED <<orderVars, cronVars, queryVars>>
    \/ \E p \in Procs : BulkDeadlock(p) /\ UNCHANGED <<orderVars, cronVars, queryVars>>
    \/ \E p \in Procs : BulkCommit(p) /\ UNCHANGED <<orderVars, cronVars, queryVars>>

Spec == Init /\ [][Next]_vars

\* Products and orders, over a store that holds no customer or one.
InitialCustomer == NewRow([name |-> NameN, email |-> EmailA, phone |-> NoneVal], 1)

InitOrders ==
    /\ customers \in {{}, {InitialCustomer}}
    /\ nextId = Cardinality(customers) + 1
    /\ pc = [p \in Procs |-> "idle"]
    /\ inp = [p \in Procs |-> <<>>]
    /\ idx = [p \in Procs |-> 0]
    /\ created = [p \in Procs |-> <<>>]
    /\ errors = [p \in Procs |-> <<>>]
    /\ txn = [p \in Procs |-> {}]
    /\ result = [p \in Procs |-> NoResult]
    /\ products = {}
    /\ orders = {}
    /\ nextProductId = 1
    /\ nextOrderId = 1
    /\ orderResult = NoOrderResult
    /\ now = 0
    /\ facadeUp = TRUE
    /\ heartbeatLog = <<>>
    /\ jobResult = [job |-> "none", raised |-> "", queried |-> ""]
    /\ queryResult = NoQueryResult

NextOrders ==
    \/ \E in \in ProductInputs : CreateProduct(in) /\ UNCHANGED <<custVars, cronVars, queryVars>>
    \/ \E customer_id \in IdInputs, ids \in ProductIdLists :
          CreateOrder(customer_id, ids) /\ UNCHANGED <<custVars, cronVars, queryVars>>

SpecOrders == InitOrders /\ [][NextOrders]_vars

\* The heartbeat job and its environment.
NextCron ==
    \/ log_crm_heartbeat /\ UNCHANGED <<custVars, orderVars, queryVars>>
    \/ Tick /\ UNCHANGED <<custVars, orderVars, queryVars>>
    \/ FacadeFlip /\ UNCHANGED <<custVars, orderVars, queryVars>>

SpecCron == Init /\ [][NextCron]_vars

\* The collection queries, over each of the stores. A query reads the store
\* and leaves it as it is, so a behaviour runs one.
InitQuery ==
    /\ \E s \in QueryStores :
          /\ customers = s.customers
          /\ products = s.products
          /\ orders = s.orders
    /\ nextId = Cardinality(customers) + 1
    /\ pc = [p \in Procs |-> "idle"]
    /\ inp = [p \in Procs |-> <<>>]
    /\ idx = [p \in Procs |-> 0]
    /\ created = [p \in Procs |-> <<>>]
    /\ errors = [p \in Procs |-> <<>>]
    /\ txn = [p \in Procs |-> {}]
    /\ result = [p \in Procs |-> NoResult]
    /\ nextProductId = Cardinality(products) + 1
    /\ nextOrderId = Cardinality(orders) + 1
    /\ orderResult = NoOrderResult
    /\ now = 0
    /\ facadeUp = TRUE
    /\ heartbeatLog = <<>>
    /\ jobResult = [job |-> "none", raised |-> "", queried |-> ""]
    /\ queryResult = NoQueryResult

NextQuery ==
    \/ \E filter \in OptionalOf(CustomerFilterInputs), order_by \in OrderByInputs :
          /\ queryResult = NoQueryResult
          /\ resolve_all_customers(filter, order_by)
          /\ UNCHANGED <<nextId, pc, inp, idx, created, errors, txn, result>>
          /\ UNCHANGED <<products, orders, nextProductId, nextOrderId, orderResult, cronVars>>
    \/ \E filter \in OptionalOf(ProductFilterInputs), order_by \in OrderByInputs :
          /\ queryResult = NoQueryResult
          /\ resolve_all_products(filter, order_by)
          /\ UNCHANGED <<custVars, orders, nextProductId, nextOrderId, orderResult, cronVars>>
    \/ \E filter \in OptionalOf(OrderFilterInputs), order_by \in OrderByInputs :
          /\ queryResult = NoQueryResult
          /\ resolve_all_orders(filter, order_by)
          /\ UNCHANGED <<custVars, products, nextProductId, nextOrderId, orderResult, cronVars>>

SpecQuery == InitQuery /\ [][NextQuery]_vars

\* One bulkCreateCustomers call whose statements after an insert can fail.
FaultProcs == {"w1"}

NextFault ==
    \/ \E p \in FaultProcs, input \in BulkInputs :
          BulkEmpty(p, input) /\ UNCHANGED <<orderVars, cronVars, queryVars>>
    \/ \E p \in FaultProcs, input \in BulkInputs :
          BulkBegin(p, input) /\ UNCHANGED <<orderVars, cronVars, queryVars>>
    \/ \E p \in FaultProcs : BulkCheck(p) /\ UNCHANGED <<orderVars, cronVars, queryVars>>
    \/ \E p \in FaultProcs : BulkInsert(p) /\ UNCHANGED <<orderVars, cronVars, queryVars>>
    \/ \E p \in FaultProcs, fault \in InsertFaults :
          BulkInsertFault(p, fault) /\ UNCHANGED <<orderVars, cronVars, queryVars>>
    \/ \E p \in FaultProcs : BulkCommit(p) /\ UNCHANGED <<orderVars, cronVars, queryVars>>

SpecFault == Init /\ [][NextFault]_vars

(***************************************************************************)
(* Claims about the customer mutations, checked under Spec.                *)
(***************************************************************************)
BulkPcs == {"bulk_check", "bulk_insert", "bulk_commit"}

\* The candidate a bulk request is working on.
CurrentItem(p) == inp[p][idx[p] + 1]

\* Some row has this e-mail, compared without case.
StoredIgnoringCase(rows, email) == \E r \in rows : Lower(r.email) = Lower(email)

\* Request p takes a step.
Moves(p) == pc'[p] # pc[p] \/ idx'[p] # idx[p]

\* C1: in every reachable state no two Customer records, committed or
\* written by an open transaction, have e-mails that are equal when
\* compared without case.
C1_UniqueEmailIgnoringCase ==
    \A p \in Procs : \A r1, r2 \in customers \cup txn[p] :
        Lower(r1.email) = Lower(r2.email) => r1 = r2

\* C1 witness: two requests carried the same e-mail up to case; one created
\* its record and the other was refused.
C1_Witness ==
    \E p, q \in Procs :
        /\ p # q
        /\ pc[p] = "done" /\ pc[q] = "done"
        /\ result[p].op = "createCustomer" /\ result[p].customers # <<>>
        /\ result[q].op = "createCustomer" /\ result[q].raised # ""
        /\ result[q].input[1].email # result[p].input[1].email
        /\ Lower(StripEmail(result[q].input[1])) = Lower(result[p].customers[1].email)
        /\ result[p].customers[1] \in customers

\* C2 (as claimed): while a bulk call works through its items, no step of
\* it removes a record an earlier item created or drops an entry of its
\* created list, the call goes on to the next item or the commit, and the
\* commit persists every record the items created.
C2_ItemFailureIsLocal ==
    [][\A p \in Procs :
          /\ (pc[p] \in {"bulk_check", "bulk_insert"} /\ Moves(p)) =>
                /\ txn[p] \subseteq txn'[p]
                /\ pc'[p] \in BulkPcs
                /\ Len(created'[p]) >= Len(created[p])
          /\ (pc[p] = "bulk_commit" /\ Moves(p)) =>
                \A i \in 1..Len(created[p]) : created[p][i] \in customers'
      ]_vars

\* The indices of the input that have no entry in the errors list, in input
\* order.
SuccessIndices(res) ==
    SelectSeq([i \in 1..Len(res.input) |-> i - 1],
              LAMBDA i : \A k \in 1..Len(res.errors) : res.errors[k].row # i)

\* C3 (as claimed): a bulk call with a non-empty input returns, for each
\* input index, either one created record or one error entry tagged with
\* that index; both lists are in input order.
C3_OneOutcomePerIndex ==
    \A p \in Procs :
        (pc[p] = "done" /\ result[p].op = "bulkCreateCustomers" /\ result[p].input # <<>>) =>
            LET res == result[p]
            IN  /\ res.raised = ""
                /\ Len(res.customers) + Len(res.errors) = Len(res.input)
                /\ \A k \in 1..Len(res.errors) :
                      /\ res.errors[k].row \in 0..(Len(res.input) - 1)
                      /\ \A j \in 1..(k - 1) : res.errors[j].row < res.errors[k].row
                /\ Len(SuccessIndices(res)) = Len(res.customers)
                /\ \A k \in 1..Len(res.customers) :
                      res.customers[k].email = StripEmail(res.input[SuccessIndices(res)[k] + 1])

\* C4 (as claimed): an insert the store refuses for uniqueness, after the
\* pre-check passed, ends the call (createCustomer) or the item (bulk) with
\* "Email already exists." and writes no record.
C4_RefusedInsertIsDuplicateKey ==
    [][\A p \in Procs :
          /\ (/\ pc[p] = "cc_insert"
              /\ Moves(p)
              /\ InsertRaises(p, StripEmail(inp[p][1])) = "IntegrityError") =>
                /\ result'[p].raised = "GraphQLError"
                /\ result'[p].message = MsgEmailExists
                /\ customers' = customers
          /\ (/\ pc[p] = "bulk_insert"
              /\ Moves(p)
              /\ ~Blocked(p, StripEmail(CurrentItem(p)))
              /\ InsertRaises(p, StripEmail(CurrentItem(p))) = "IntegrityError") =>
                /\ errors'[p] = Append(errors[p], RowError(idx[p], MsgEmailExists))
                /\ txn'[p] = txn[p]
                /\ created'[p] = created[p]
      ]_vars

\* C5 (as claimed): createCustomer with an e-mail that is already in the
\* store, compared without case, fails with "Email already exists." and
\* leaves the Customer records as they were, whatever the rest of the input.
C5_PresentEmailIsDuplicateKey ==
    [][\A p \in Procs, c \in CustomerInputs :
          (CreateCustomerCheck(p, c) /\ StoredIgnoringCase(customers, StripEmail(c))) =>
              /\ pc'[p] = "done"
              /\ result'[p].raised = "GraphQLError"
              /\ result'[p].message = MsgEmailExists
              /\ customers' = customers
      ]_vars

\* C5 (amended): createCustomer with a name that is not blank and an e-mail
\* that is already in the store, compared without case after trimming,
\* fails with "Email already exists."; with a blank name it fails with
\* "Name is required."; in both cases the Customer records stay as they were.
C5_PresentEmailFails ==
    [][\A p \in Procs, c \in CustomerInputs :
          (CreateCustomerCheck(p, c) /\ StoredIgnoringCase(customers, StripEmail(c))) =>
              /\ pc'[p] = "done"
              /\ result'[p].raised = "GraphQLError"
              /\ result'[p].message =
                    IF StripName(c) = <<>> THEN MsgNameRequired ELSE MsgEmailExists
              /\ result'[p].customers = <<>>
              /\ customers' = customers
      ]_vars

\* C5 witness: a createCustomer call was refused with "Email already exists."
\* for an e-mail that differs from the stored one in case and padding.
C5_Witness ==
    \E p \in Procs :
        /\ pc[p] = "done"
        /\ result[p].op = "createCustomer"
        /\ result[p].message = MsgEmailExists
        /\ \E r \in customers :
              /\ r.email # result[p].input[1].email
              /\ r.email # StripEmail(result[p].input[1])
              /\ Lower(r.email) = Lower(StripEmail(result[p].input[1]))

\* C7: bulkCreateCustomers with an empty list returns an empty created
\* list and exactly one error, opens no transaction and changes neither the
\* committed rows, nor any uncommitted ones, nor the id sequence.
C7_EmptyInput ==
    /\ [](\A p \in Procs : pc[p] \in BulkPcs => inp[p] # <<>>)
    /\ [][\A p \in Procs :
             (/\ pc[p] = "idle"
              /\ pc'[p] # "idle"
              /\ result'[p].op = "bulkCreateCustomers"
              /\ result'[p].input = <<>>) =>
                 /\ pc'[p] = "done"
                 /\ result'[p].raised = ""
                 /\ result'[p].customers = <<>>
                 /\ Len(result'[p].errors) = 1
                 /\ result'[p].errors[1].msg = MsgEmptyList
                 /\ customers' = customers
                 /\ txn' = txn
                 /\ nextId' = nextId
         ]_vars

\* C7 witness: the empty list was answered while the store held a record.
C7_Witness ==
    \E p \in Procs :
        /\ pc[p] = "done"
        /\ result[p].op = "bulkCreateCustomers"
        /\ result[p].input = <<>>
        /\ Len(result[p].errors) = 1
        /\ customers # {}

\* C8 (as claimed): a bulk item whose e-mail equals, without case, the
\* e-mail of a record an earlier item of the same batch created fails with
\* "Email already exists.", and the earlier record stays.
C8_InBatchDuplicateIsDuplicateKey ==
    [][\A p \in Procs :
          (/\ pc[p] = "bulk_check"
           /\ Moves(p)
           /\ StoredIgnoringCase(txn[p], StripEmail(CurrentItem(p)))) =>
              /\ errors'[p] = Append(errors[p], RowError(idx[p], MsgEmailExists))
              /\ txn'[p] = txn[p]
              /\ created'[p] = created[p]
      ]_vars

\* C8 (amended): such an item fails with "Email already exists." when its
\* name is not blank, and with "Name is required." when it is; either way
\* the records of the earlier items stay written and listed.
C8_InBatchDuplicateFails ==
    [][\A p \in Procs :
          (/\ pc[p] = "bulk_check"
           /\ Moves(p)
           /\ StoredIgnoringCase(txn[p], StripEmail(CurrentItem(p)))) =>
              /\ errors'[p] =
                    Append(errors[p],
                           RowError(idx[p],
                                    IF StripName(CurrentItem(p)) = <<>>
                                    THEN MsgNameRequired ELSE MsgEmailExists))
              /\ txn'[p] = txn[p]
              /\ created'[p] = created[p]
      ]_vars

\* C8 witness: a committed batch whose second item repeated the first one's
\* e-mail in another case: the first is stored, the second is the error of
\* row 1.
C8_Witness ==
    \E p \in Procs :
        /\ pc[p] = "done"
        /\ result[p].op = "bulkCreateCustomers"
        /\ Len(result[p].input) = 2
        /\ result[p].input[1].email # result[p].input[2].email
        /\ Len(result[p].customers) = 1
        /\ result[p].customers[1].email = StripEmail(result[p].input[1])
        /\ result[p].customers[1] \in customers
        /\ result[p].errors = <<RowError(1, MsgEmailExists)>>
        /\ customers = {result[p].customers[1]}

(***************************************************************************)
(* Claims about createOrder, checked under SpecOrders.                     *)
(***************************************************************************)
\* The Product rows an order is linked to.
LinkedProducts(o) == {r \in products : r.id \in o.products}

\* C6: every Order's total_amount is the sum of the store prices of the
\* products it is linked to; the input of createOrder has no amount, so the
\* store alone decides it.
C6_TotalIsSumOfStorePrices ==
    \A o \in orders :
        /\ o.total_amount = SumPrices(LinkedProducts(o))
        /\ \A pid \in o.products : \E r \in products : r.id = pid

\* C6 witness: an order linked to two products with different prices.
C6_Witness ==
    \E o \in orders :
        /\ Cardinality(o.products) = 2
        /\ \E r1, r2 \in LinkedProducts(o) : r1.price # r2.price
        /\ o.total_amount = 12

\* An ID string that is the key of no Customer / no Product row.
MatchesNoCustomer(s) == ~\E r \in customers : r.id = ToPk(s)

MatchesNoProduct(s) == ~\E r \in products : r.id = ToPk(s)

\* C9 (as claimed): createOrder with no product ids, with a customer id
\* that matches no Customer or with a product id that matches no Product
\* fails with "At least one product must be selected.", "Invalid customer
\* ID." or "Invalid product ID(s)" and creates nothing; so every Order
\* refers to a stored Customer and to a non-empty set of stored Products.
C9_BadReferenceIsRejected ==
    /\ [](\A o \in orders :
             /\ \E r \in customers : r.id = o.customer
             /\ o.products # {}
             /\ \A pid \in o.products : \E r \in products : r.id = pid)
    /\ [][\A customer_id \in IdInputs, ids \in ProductIdLists :
             (/\ CreateOrder(customer_id, ids)
              /\ \/ ids = <<>>
                 \/ MatchesNoCustomer(customer_id)
                 \/ \E i \in 1..Len(ids) : MatchesNoProduct(ids[i])) =>
                 /\ orderResult'.raised = "GraphQLError"
                 /\ orderResult'.message \in
                       {MsgNoProducts, MsgInvalidCustomer, MsgInvalidProducts}
                 /\ orders' = orders
         ]_vars

(***************************************************************************)
(* Claims about the heartbeat job, checked under SpecCron.                 *)
(***************************************************************************)
\* The status a heartbeat line reports.
LineStatus(line) ==
    CASE line.text = "CRM is alive" -> "UP"
      [] line.text = "CRM is down" -> "DOWN"
      [] OTHER -> "none"

\* A step of the heartbeat job.
HeartbeatRuns == heartbeatLog' # heartbeatLog \/ jobResult' # jobResult

\* C10 (as claimed): an invocation appends exactly one line with the time
\* and an UP or DOWN status and does not raise; when the liveness query
\* failed the line says DOWN.
C10_FailedQueryLogsDown ==
    [][HeartbeatRuns =>
          /\ Len(heartbeatLog') = Len(heartbeatLog) + 1
          /\ SubSeq(heartbeatLog', 1, Len(heartbeatLog)) = heartbeatLog
          /\ heartbeatLog'[Len(heartbeatLog')].timestamp = now
          /\ LineStatus(heartbeatLog'[Len(heartbeatLog')]) \in {"UP", "DOWN"}
          /\ (HelloQuery = "TransportError" =>
                LineStatus(heartbeatLog'[Len(heartbeatLog')]) = "DOWN")
          /\ jobResult'.raised = ""
      ]_vars

\* C10 (amended): an invocation appends exactly one line, the time followed
\* by "CRM is alive", whether the liveness query succeeded or failed, and a
\* failed query is not raised.
C10_AlwaysLogsAlive ==
    [][HeartbeatRuns =>
          /\ heartbeatLog' = Append(heartbeatLog, [timestamp |-> now, text |-> "CRM is alive"])
          /\ jobResult'.job = "log_crm_heartbeat"
          /\ jobResult'.raised = ""
      ]_vars

\* C10 witness: the job ran while the endpoint was down and logged its line.
C10_Witness ==
    /\ jobResult.job = "log_crm_heartbeat"
    /\ jobResult.queried = "TransportError"
    /\ heartbeatLog # <<>>
    /\ heartbeatLog[Len(heartbeatLog)].text = "CRM is alive"


(***************************************************************************)
(* Claims about the collection queries (SpecQuery).                        *)
(***************************************************************************)
AllowList(entity) ==
    CASE entity = "allCustomers" -> AllowedCustomerSort
      [] entity = "allProducts" -> AllowedProductSort
      [] entity = "allOrders" -> AllowedOrderSort
      [] OTHER -> {}

\* The field a directive names: the directive without one leading "-".
DirectiveField(d) == IF d # <<>> /\ Head(d) = "-" THEN Tail(d) ELSE d

\* The filter of the last query is one the filter set rejects: an allOrders
\* filter whose productId is not a number.
QueryFilterRejected ==
    /\ queryResult.entity = "allOrders"
    /\ Given(queryResult.filter)
    /\ ~Falsy(ValueOf(queryResult.filter).product_id)
    /\ ~IsNumeral(ValueOf(queryResult.filter).product_id)

Queried == queryResult.entity # "none"

\* No directive: the argument is absent or the empty string.
NoDirective(d) == d = NoneVal \/ d = <<>>

\* C11 as stated: for the three queries and every filter, a directive whose
\* field, one leading "-" removed, is outside the allow-list of the entity
\* fails the query with the invalid-sort-field error and gives no rows; a
\* directive whose field is in the allow-list never fails with that error;
\* without directive there is no ordering and not that error.
C11_UnlistedFieldIsInvalidSortField ==
    Queried =>
        LET d == queryResult.order_by
            allowed == AllowList(queryResult.entity)
        IN  /\ (~NoDirective(d) /\ DirectiveField(d) \notin allowed) =>
                   /\ queryResult.raised = "GraphQLError"
                   /\ queryResult.message = MsgInvalidOrderBy
                   /\ queryResult.rows = {}
            /\ (~NoDirective(d) /\ DirectiveField(d) \in allowed) =>
                   queryResult.message # MsgInvalidOrderBy
            /\ NoDirective(d) =>
                   /\ queryResult.ordering = <<>>
                   /\ queryResult.message # MsgInvalidOrderBy

\* C11 amended: a directive that is a non-empty string and whose field, one
\* leading "-" removed, is outside the allow-list fails the query and gives no
\* rows, for every filter, and the error is the invalid-sort-field one whenever
\* the filter itself is accepted (a rejected filter fails the query first, with
\* the invalid-filter error); a directive whose field is in the allow-list
\* never fails with the invalid-sort-field error and, the filter accepted, is
\* the ordering of the result; an absent or empty directive gives no ordering
\* and no error.
C11_UnlistedFieldFailsQuery ==
    Queried =>
        LET d == queryResult.order_by
            allowed == AllowList(queryResult.entity)
            none == NoDirective(d)
        IN  /\ (~none /\ DirectiveField(d) \notin allowed) =>
                   /\ queryResult.raised = "GraphQLError"
                   /\ queryResult.rows = {}
                   /\ queryResult.message =
                          IF QueryFilterRejected THEN MsgInvalidFilter ELSE MsgInvalidOrderBy
            /\ (~none /\ DirectiveField(d) \in allowed) =>
                   /\ queryResult.message # MsgInvalidOrderBy
                   /\ ~QueryFilterRejected =>
                          queryResult.raised = "" /\ queryResult.ordering = d
            /\ none =>
                   /\ queryResult.ordering = <<>>
                   /\ queryResult.message # MsgInvalidOrderBy
                   /\ ~QueryFilterRejected => queryResult.raised = ""

\* C11 witness: allProducts over a store with products, a filter given and
\* the directive "-secret", has failed with the invalid-sort-field error.
C11_Witness ==
    /\ queryResult.entity = "allProducts"
    /\ products # {}
    /\ Given(queryResult.filter)
    /\ queryResult.order_by = Desc(FSecret)
    /\ queryResult.raised = "GraphQLError"
    /\ queryResult.message = MsgInvalidOrderBy
    /\ queryResult.rows = {}

\* The products a filter asks for: every clause whose field is present holds.
\* nameClause(r, needle) is what a present name says of product r.
ProductsAskedFor(f, nameClause(_, _)) ==
    { r \in products :
        /\ f.name_icontains # NoneVal => nameClause(r, f.name_icontains)
        /\ f.price_gte # <<>> => r.price >= f.price_gte[1]
        /\ f.price_lte # <<>> => r.price <= f.price_lte[1]
        /\ f.stock_gte # <<>> => r.stock >= f.stock_gte[1]
        /\ f.stock_lte # <<>> => r.stock <= f.stock_lte[1]
        /\ f.low_stock = <<TRUE>> => r.stock < 10 }

NameHas(r, needle) == Contains(r.name, needle)

NameHasTrimmed(r, needle) == Contains(r.name, Strip(needle))

AnsweredProducts == queryResult.entity = "allProducts" /\ queryResult.raised = ""

\* C12 as stated: an allProducts query that did not fail returns exactly the
\* products for which every present clause of the filter holds, a name clause
\* being that the name contains the given text without regard to case; without
\* filter, or with no field present, it returns all products.
C12_FilterIsConjunction ==
    AnsweredProducts =>
        IF Given(queryResult.filter)
        THEN queryResult.rows = ProductsAskedFor(ValueOf(queryResult.filter), NameHas)
        ELSE queryResult.rows = products

\* C12 amended: an allProducts query that did not fail returns exactly the
\* products for which every present clause of the filter holds, where a name
\* clause compares with the given text stripped of surrounding whitespace (so
\* a text of whitespace only constrains nothing) and lowStock = false
\* constrains nothing; with stockLte = 5 and lowStock = true these are products
\* with stock <= 5 and stock < 10; without filter, or with no field present,
\* it returns all products.
C12_FilterIsConjunctionTrimmed ==
    AnsweredProducts =>
        IF Given(queryResult.filter)
        THEN LET f == ValueOf(queryResult.filter)
             IN  /\ queryResult.rows = ProductsAskedFor(f, NameHasTrimmed)
                 /\ (f.stock_lte = <<5>> /\ f.low_stock = <<TRUE>>) =>
                        \A r \in queryResult.rows : r.stock <= 5 /\ r.stock < 10
                 /\ ( /\ f.name_icontains = NoneVal
                      /\ f.price_gte = <<>> /\ f.price_lte = <<>>
                      /\ f.stock_gte = <<>> /\ f.stock_lte = <<>>
                      /\ f.low_stock = <<>> ) =>
                        queryResult.rows = products
        ELSE queryResult.rows = products

\* C12 witness: over a store with stocks 3, 7 and 10, stockLte = 5 together
\* with lowStock = true has returned the one product with stock 3.
C12_Witness ==
    /\ AnsweredProducts
    /\ {ProductA, ProductXA, ProductX} \subseteq products
    /\ Given(queryResult.filter)
    /\ ValueOf(queryResult.filter).stock_lte = <<5>>
    /\ ValueOf(queryResult.filter).low_stock = <<TRUE>>
    /\ ValueOf(queryResult.filter).name_icontains = NoneVal
    /\ queryResult.rows = {ProductA}

(***************************************************************************)
(* Claims about bulkCreateCustomers when a statement after the insert       *)
(* fails (SpecFault).                                                      *)
(***************************************************************************)
\* The records of a list.
Records(rows) == {rows[k] : k \in 1..Len(rows)}

\* C13: when a bulk call returns its two lists, the returned customers are
\* exactly the records the call added to the store (each returned one is
\* stored, each stored one is returned), and, the input not empty, the two
\* lists together have no more entries than the input has items: no index is
\* both a returned customer and an error entry.
C13_CreatedListIsWhatWasPersisted ==
    [][\A p \in Procs :
          ( /\ pc'[p] = "done" /\ pc[p] # "done"
            /\ result'[p].op = "bulkCreateCustomers"
            /\ result'[p].raised = "" ) =>
                /\ Records(result'[p].customers) = customers' \ customers
                /\ result'[p].input # <<>> =>
                      Len(result'[p].customers) + Len(result'[p].errors)
                          <= Len(result'[p].input)
      ]_vars

====
